---- MODULE Spec2Model ----
(***************************************************************************)
(* Model of src/bone_age/frontend/main.py (the Bone-Ager Streamlit page).  *)
(*                                                                         *)
(* One script run is a linear sequence of steps; pc is the position of the *)
(* run in the script.  Arrays are functions from index pairs to samples,   *)
(* text is a sequence of one-character strings, and ages are counted in    *)
(* quarters of a month (exact binary fractions, as the floats they model). *)
(***************************************************************************)
EXTENDS Integers, Sequences, FiniteSets, TLC

VARIABLES
    pc,              \* position of the run in the script
    uploaded_file,   \* the uploader's value: None or the uploaded file
    name,            \* st.session_state["name"], the text input
    option,          \* the selectbox value
    file_ext,        \* line 61
    dicom_data,      \* line 75, the decoded data set (tag -> Some(value) or Absent)
    tag_index,       \* position of the scrub loop of line 76
    image,           \* the local `image`
    divisor,         \* the divisor of the division of line 50, NoDivision if none ran
    shown,           \* what st.image was given
    bone_age,        \* line 88
    confidence_low,  \* line 89
    confidence_high, \* line 90
    screen,          \* the result block of lines 92-102
    pdf,             \* the FPDF document: its pages and text lines
    safe_filename,   \* line 119
    download         \* the download button of lines 121-126

vars == <<pc, uploaded_file, name, option, file_ext, dicom_data, tag_index,
          image, divisor, shown, bone_age, confidence_low, confidence_high,
          screen, pdf, safe_filename, download>>

\* An optional value is a sequence of length at most one.
None == <<>>
Some(v) == <<v>>
Absent == None           \* a data element that is not in the data set
NoDivision == None

-----------------------------------------------------------------------------
(* Bounds of the model *)

MaxCells == 4        \* largest number of samples of a pixel array
MaxPix == 1          \* small sample values are -1..MaxPix
MaxNameLen == 3      \* longest enumerated patient name
AgeMargin == 8       \* estimates range from AgeMargin quarter months below 0
                     \* to AgeMargin quarter months above 216 months

-----------------------------------------------------------------------------
(* Arithmetic helpers *)

RECURSIVE Pow2(_)
Pow2(n) == IF n = 0 THEN 1 ELSE 2 * Pow2(n - 1)

Abs(x) == IF x < 0 THEN -x ELSE x

SetMin(S) == CHOOSE x \in S : \A y \in S : x <= y
SetMax(S) == CHOOSE x \in S : \A y \in S : y <= x

Range(f) == {f[p] : p \in DOMAIN f}

\* np.min / np.max over the whole array
np_min(a) == SetMin(Range(a))
np_max(a) == SetMax(Range(a))

(* float32: 24 significant bits, round to nearest, ties to even.           *)
F32Bits == 24

\* the smallest shift s with a \div 2^s < 2^24
RECURSIVE F32Shift(_)
F32Shift(a) == IF a < Pow2(F32Bits) THEN 0 ELSE 1 + F32Shift(a \div 2)

\* an integer rounded to the nearest float32 (astype(np.float32), and the
\* result of a float32 +, -, * whose exact value is the integer v)
F32Int(v) ==
    LET a == Abs(v)
        s == F32Shift(a)
        q == a \div Pow2(s)
        r == a % Pow2(s)
        up == \/ 2 * r > Pow2(s)
              \/ 2 * r = Pow2(s) /\ q % 2 = 1
        m == (IF up THEN q + 1 ELSE q) * Pow2(s)
    IN  IF v < 0 THEN -m ELSE m

\* long division: shift the quotient left until it has 24 bits
RECURSIVE F32Normalise(_, _, _, _)
F32Normalise(q, r, d, e) ==
    IF q >= Pow2(F32Bits - 1) THEN [m |-> q, r |-> r, e |-> e]
    ELSE IF 2 * r >= d THEN F32Normalise(2 * q + 1, 2 * r - d, d, e + 1)
         ELSE F32Normalise(2 * q, 2 * r, d, e + 1)

\* the float32 quotient n / d of two float32 integers, 0 <= n, 0 < d:
\* the value m / 2^e
F32Div(n, d) ==
    IF n = 0 THEN [m |-> 0, e |-> 0]
    ELSE LET x == F32Normalise(n \div d, n % d, d, 0)
             up == \/ 2 * x.r > d
                   \/ 2 * x.r = d /\ x.m % 2 = 1
         IN  [m |-> IF up THEN x.m + 1 ELSE x.m, e |-> x.e]

\* mutant of AsUint8: the cast rounds to the nearest integer
AsUint8_Rounding(x) ==
    IF x.e > F32Bits THEN 0
    ELSE IF x.e = 0 THEN x.m % 256
    ELSE ((x.m + Pow2(x.e - 1)) \div Pow2(x.e)) % 256

\* astype(np.uint8) of a float32 in [0, 256): the fraction is dropped
AsUint8(x) ==
    IF x.e > F32Bits THEN 0 ELSE (x.m \div Pow2(x.e)) % 256

-----------------------------------------------------------------------------
(* normalize_to_uint8, lines 46-51 *)

\* mutant of zeros_like: the flat array is cast, not zeroed
zeros_like_Cast(a) == [p \in DOMAIN a |-> a[p] % 256]

\* line 48: np.zeros_like(image, dtype=np.uint8)
zeros_like(a) == [p \in DOMAIN a |-> 0]

\* line 49: image.astype(np.float32)
astype_float32(a) == [p \in DOMAIN a |-> F32Int(a[p])]

\* line 50, the divisor np.max(image) - np.min(image) of the float32 array
Divisor(f) == F32Int(np_max(f) - np_min(f))

\* line 50, one element: 255 * (x - min) / (max - min) in float32
Rescale(x, mn, d) == F32Div(F32Int(255 * F32Int(x - mn)), d)

normalize_to_uint8(a) ==
    IF np_max(a) = np_min(a) THEN zeros_like(a)
    ELSE LET f == astype_float32(a)
             scaled == [p \in DOMAIN f |-> Rescale(f[p], np_min(f), Divisor(f))]
         IN  [p \in DOMAIN scaled |-> AsUint8(scaled[p])]

\* the divisor the call divides by, NoDivision on the early return of line 48
DivisorUsed(a) ==
    IF np_max(a) = np_min(a) THEN NoDivision
    ELSE Some(Divisor(astype_float32(a)))

-----------------------------------------------------------------------------
(* Text: a string is a sequence of one-character strings *)

Whitespace == {" ", "\t", "\n"}

\* str.strip(): leading and trailing whitespace removed
RECURSIVE lstrip(_)
lstrip(s) == IF s # <<>> /\ Head(s) \in Whitespace THEN lstrip(Tail(s)) ELSE s

RECURSIVE rstrip(_)
rstrip(s) ==
    IF s # <<>> /\ s[Len(s)] \in Whitespace
    THEN rstrip(SubSeq(s, 1, Len(s) - 1)) ELSE s

\* mutant of strip: only the leading whitespace is removed
strip_Leading(s) == lstrip(s)

strip(s) == rstrip(lstrip(s))

\* str.replace(old, new) for one-character old and new
replace(s, old, new) == [i \in 1..Len(s) |-> IF s[i] = old THEN new ELSE s[i]]

Digit(d) == <<"0", "1", "2", "3", "4", "5", "6", "7", "8", "9">>[d + 1]

RECURSIVE Digits(_)
Digits(n) == IF n < 10 THEN <<Digit(n)>> ELSE Digits(n \div 10) \o <<Digit(n % 10)>>

\* f"{x:.1f}" of the number q / 4: rounded to tenths, ties to even
Fmt1(q) ==
    LET n == 5 * Abs(q)                  \* twice the number of tenths
        t == IF n % 2 = 1 /\ (n \div 2) % 2 = 1 THEN n \div 2 + 1 ELSE n \div 2
    IN  (IF q < 0 THEN <<"-">> ELSE <<>>) \o Digits(t \div 10) \o <<".">> \o <<Digit(t % 10)>>

\* str.lower() of a file name's extension
lower(e) == CASE e = "DCM" -> "dcm" [] e = "PNG" -> "png" [] OTHER -> e

-----------------------------------------------------------------------------
(* The script's literals *)

\* mutant of ScrubTags: the birth date is not in the list
ScrubTags_NoBirthDate == <<"PatientName", "PatientID">>

ScrubTags == <<"PatientName", "PatientID", "PatientBirthDate">>     \* line 76
Genders == {"Female", "Male", "Unknown"}                            \* line 19
Title == <<"B", "o", "n", "e", "-", "A", "g", "e", "r", " ", "R", "e", "p", "o", "r", "t">>
NameLabel == <<"P", "a", "t", "i", "e", "n", "t", " ", "N", "a", "m", "e", ":", " ">>
GenderLabel == <<"G", "e", "n", "d", "e", "r", ":", " ">>
AgeLabel == <<"E", "s", "t", "i", "m", "a", "t", "e", "d", " ", "B", "o", "n", "e", " ", "A", "g", "e", ":", " ">>
AgeUnit == <<" ", "y", "e", "a", "r", "s">>
Suffix == <<"_", "r", "e", "p", "o", "r", "t", ".", "p", "d", "f">>
Mime == "application/pdf"
\* months are counted in quarters: 120 is 480, 1.5 is 6, 216 is 864
StubAge == 480                       \* line 56
CiHalfWidth == 6                     \* lines 89 and 90
CiFloor == 0                         \* line 89
CiCeiling == 864                     \* line 90

GenderText(g) ==
    CASE g = "Female" -> <<"F", "e", "m", "a", "l", "e">>
      [] g = "Male" -> <<"M", "a", "l", "e">>
      [] OTHER -> <<"U", "n", "k", "n", "o", "w", "n">>

\* line 56
estimate_bone_age(image_array) == StubAge

Max2(a, b) == IF a >= b THEN a ELSE b
Min2(a, b) == IF a <= b THEN a ELSE b

\* mutant of ConfidenceLow: the lower end is not clamped
ConfidenceLow_Unclamped(age) == age - CiHalfWidth

\* line 89
ConfidenceLow(age) == Max2(CiFloor, age - CiHalfWidth)
\* line 90
ConfidenceHigh(age) == Min2(CiCeiling, age + CiHalfWidth)

\* lines 92-102: the three figures of the result block
ResultBlock(age, lo, hi) == [age |-> Fmt1(age), low |-> Fmt1(lo), high |-> Fmt1(hi)]

Cell(txt) == [op |-> "cell", txt |-> txt]
Ln == [op |-> "ln"]

\* mutant of Report: the gender cell is written before the name cell
Report_GenderFirst(patient_name, gender, age) ==
    [pages |-> 1,
     lines |-> << Cell(Title),
                  Ln,
                  Cell(GenderLabel \o GenderText(gender)),
                  Cell(NameLabel \o patient_name),
                  Cell(AgeLabel \o Fmt1(age) \o AgeUnit) >>]

\* lines 104-113: one page, then the cells in the order of the calls
Report(patient_name, gender, age) ==
    [pages |-> 1,
     lines |-> << Cell(Title),
                  Ln,
                  Cell(NameLabel \o patient_name),
                  Cell(GenderLabel \o GenderText(gender)),
                  Cell(AgeLabel \o Fmt1(age) \o AgeUnit) >>]

\* line 119
SafeFilename(patient_name) == replace(strip(patient_name), " ", "_") \o Suffix

\* mutant of ScrubTag: the value is set without the test of line 77
ScrubTag_Unguarded(ds, tag) == [ds EXCEPT ![tag] = Some("")]

\* lines 77-78: one pass of the scrub loop
ScrubTag(ds, tag) == IF ds[tag] # Absent THEN [ds EXCEPT ![tag] = Some("")] ELSE ds

-----------------------------------------------------------------------------
(* Inputs *)

ShortPixels == ((-1)..MaxPix) \cup {65535}          \* up to the largest 16-bit sample
Pixels == ShortPixels \cup {65795}                 \* and a 17-bit sample

Shapes == {sh \in (1..MaxCells) \X (1..MaxCells) : sh[1] * sh[2] <= MaxCells}

ArraysOver(P) == UNION {[(1..sh[1]) \X (1..sh[2]) -> P] : sh \in Shapes}

Arrays == ArraysOver(Pixels)
ShortArrays == ArraysOver(ShortPixels)

Flat500 == [p \in (1..2) \X (1..2) |-> 500]
Ramp == [p \in (1..1) \X (1..3) |-> p[2] - 1]
FewArrays == {Flat500, Ramp}

Tags == {"PatientName", "PatientID", "PatientBirthDate", "PatientSex", "PixelData"}

\* the data sets whose identity fields are each absent, empty or filled
DataSets(pixel_arrays) ==
    {[t \in Tags |-> CASE t = "PatientName" -> n
                       [] t = "PatientID" -> i
                       [] t = "PatientBirthDate" -> b
                       [] t = "PatientSex" -> x
                       [] OTHER -> px] :
        n \in {Absent, Some(""), Some("Jane Doe")},
        i \in {Absent, Some(""), Some("123")},
        b \in {Absent, Some(""), Some("20100101")},
        x \in {Absent, Some("F")},
        px \in {Absent} \cup {Some(a) : a \in pixel_arrays}}

OneDataSet(a) ==
    [t \in Tags |-> CASE t = "PatientName" -> Some("Test")
                      [] t = "PatientID" -> Some("1")
                      [] t = "PatientBirthDate" -> Some("20200101")
                      [] t = "PatientSex" -> Absent
                      [] OTHER -> Some(a)]

Extensions == {"dcm", "DCM", "png", "jpg", "jpeg"}

\* an uploaded file: the extension of its name and what its bytes hold
Upload(ext, kind, ds, raster) == [ext |-> ext, kind |-> kind, ds |-> ds, raster |-> raster]

NoDataSet == [t \in Tags |-> Absent]
NoRaster == [p \in {} |-> 0]

DicomFiles(datasets) == {Upload(e, "dicom", ds, NoRaster) : e \in {"dcm", "DCM"}, ds \in datasets}
RasterFiles(rasters) == {Upload(e, "raster", NoDataSet, r) : e \in {"png", "jpg", "jpeg"}, r \in rasters}
\* files whose bytes are not what the extension says
BadFiles == {Upload(e, "garbage", NoDataSet, NoRaster) : e \in Extensions}

Alphabet == {"B", " ", "\t", "/"}

RECURSIVE SeqsUpTo(_, _)
SeqsUpTo(S, n) ==
    IF n = 0 THEN {<<>>}
    ELSE LET shorter == SeqsUpTo(S, n - 1)
         IN  shorter \cup {Append(s, c) : s \in shorter, c \in S}

JaneDoe == <<"J", "a", "n", "e", " ", "D", "o", "e">>
PaddedBob == <<" ", " ", "B", "o", "b", " ", " ">>
TestName == <<"T", "e", "s", "t">>

Names == SeqsUpTo(Alphabet, MaxNameLen) \cup {JaneDoe, PaddedBob, TestName}
FewNames == {<<>>, TestName}

Ages == (-AgeMargin)..(864 + AgeMargin)

-----------------------------------------------------------------------------
(* The state before a run: the widgets hold the user's inputs (lines 18, 19 *)
(* and 40), nothing was computed yet.                                       *)

InitWith(files, names, genders) ==
    /\ pc = "start"
    /\ uploaded_file \in {None} \cup {Some(f) : f \in files}
    /\ name \in names
    /\ option \in genders
    /\ file_ext = None
    /\ dicom_data = None
    /\ tag_index = 0
    /\ image = None
    /\ divisor = NoDivision
    /\ shown = None
    /\ bone_age = None
    /\ confidence_low = None
    /\ confidence_high = None
    /\ screen = None
    /\ pdf = None
    /\ safe_filename = None
    /\ download = None

-----------------------------------------------------------------------------
(* The steps of a run *)

\* lines 59-68: nothing runs without an upload
Begin ==
    /\ pc = "start"
    /\ IF uploaded_file = None
       THEN /\ pc' = "done"
            /\ UNCHANGED file_ext
       ELSE /\ file_ext' = Some(lower(uploaded_file[1].ext))
            /\ pc' = "decode"
    /\ UNCHANGED <<uploaded_file, name, option, dicom_data, tag_index, image,
                   divisor, shown, bone_age, confidence_low, confidence_high,
                   screen, pdf, safe_filename, download>>

\* mutant of ReadDicom: the read error is swallowed and the run goes on
ReadDicom_Swallowed ==
    /\ pc = "decode"
    /\ file_ext = Some("dcm")
    /\ IF uploaded_file[1].kind = "dicom"
       THEN /\ dicom_data' = Some(uploaded_file[1].ds)
            /\ tag_index' = 1
            /\ pc' = "scrub"
       ELSE /\ pc' = "estimate"
            /\ UNCHANGED <<dicom_data, tag_index>>
    /\ UNCHANGED <<uploaded_file, name, option, file_ext, image, divisor, shown,
                   bone_age, confidence_low, confidence_high, screen, pdf,
                   safe_filename, download>>

\* line 75: pydicom.dcmread raises on bytes that are not DICOM
ReadDicom ==
    /\ pc = "decode"
    /\ file_ext = Some("dcm")
    /\ IF uploaded_file[1].kind = "dicom"
       THEN /\ dicom_data' = Some(uploaded_file[1].ds)
            /\ tag_index' = 1
            /\ pc' = "scrub"
       ELSE /\ pc' = "error"
            /\ UNCHANGED <<dicom_data, tag_index>>
    /\ UNCHANGED <<uploaded_file, name, option, file_ext, image, divisor, shown,
                   bone_age, confidence_low, confidence_high, screen, pdf,
                   safe_filename, download>>

\* lines 76-78: one iteration of the scrub loop
Scrub ==
    /\ pc = "scrub"
    /\ tag_index <= Len(ScrubTags)
    /\ dicom_data' = Some(ScrubTag(dicom_data[1], ScrubTags[tag_index]))
    /\ tag_index' = tag_index + 1
    /\ pc' = IF tag_index = Len(ScrubTags) THEN "extract" ELSE "scrub"
    /\ UNCHANGED <<uploaded_file, name, option, file_ext, image, divisor, shown,
                   bone_age, confidence_low, confidence_high, screen, pdf,
                   safe_filename, download>>

\* line 79: pixel_array raises when the data set has no PixelData
Extract ==
    /\ pc = "extract"
    /\ IF dicom_data[1]["PixelData"] = Absent
       THEN /\ pc' = "error"
            /\ UNCHANGED image
       ELSE /\ image' = Some(dicom_data[1]["PixelData"][1])
            /\ pc' = "normalize"
    /\ UNCHANGED <<uploaded_file, name, option, file_ext, dicom_data, tag_index,
                   divisor, shown, bone_age, confidence_low, confidence_high,
                   screen, pdf, safe_filename, download>>

\* line 80
Normalize ==
    /\ pc = "normalize"
    /\ image' = Some(normalize_to_uint8(image[1]))
    /\ divisor' = DivisorUsed(image[1])
    /\ pc' = "display"
    /\ UNCHANGED <<uploaded_file, name, option, file_ext, dicom_data, tag_index,
                   shown, bone_age, confidence_low, confidence_high, screen, pdf,
                   safe_filename, download>>

\* line 81
Display ==
    /\ pc = "display"
    /\ shown' = image
    /\ pc' = "estimate"
    /\ UNCHANGED <<uploaded_file, name, option, file_ext, dicom_data, tag_index,
                   image, divisor, bone_age, confidence_low, confidence_high,
                   screen, pdf, safe_filename, download>>

\* lines 83-85: Image.open raises on bytes that are no raster image
OpenRaster ==
    /\ pc = "decode"
    /\ file_ext # Some("dcm")
    /\ IF uploaded_file[1].kind = "raster"
       THEN /\ shown' = Some(uploaded_file[1].raster)
            /\ image' = Some(uploaded_file[1].raster)
            /\ pc' = "estimate"
       ELSE /\ pc' = "error"
            /\ UNCHANGED <<shown, image>>
    /\ UNCHANGED <<uploaded_file, name, option, file_ext, dicom_data, tag_index,
                   divisor, bone_age, confidence_low, confidence_high, screen,
                   pdf, safe_filename, download>>

\* line 88
Estimate ==
    /\ pc = "estimate"
    /\ bone_age' = Some(estimate_bone_age(image[1]))
    /\ pc' = "confidence"
    /\ UNCHANGED <<uploaded_file, name, option, file_ext, dicom_data, tag_index,
                   image, divisor, shown, confidence_low, confidence_high,
                   screen, pdf, safe_filename, download>>

\* lines 89-90
Confidence ==
    /\ pc = "confidence"
    /\ confidence_low' = Some(ConfidenceLow(bone_age[1]))
    /\ confidence_high' = Some(ConfidenceHigh(bone_age[1]))
    /\ pc' = "result"
    /\ UNCHANGED <<uploaded_file, name, option, file_ext, dicom_data, tag_index,
                   image, divisor, shown, bone_age, screen, pdf, safe_filename,
                   download>>

\* lines 92-102
ShowResult ==
    /\ pc = "result"
    /\ screen' = Some(ResultBlock(bone_age[1], confidence_low[1], confidence_high[1]))
    /\ pc' = "compose"
    /\ UNCHANGED <<uploaded_file, name, option, file_ext, dicom_data, tag_index,
                   image, divisor, shown, bone_age, confidence_low,
                   confidence_high, pdf, safe_filename, download>>

\* lines 104-117: patient_name is the text input's value
Compose ==
    /\ pc = "compose"
    /\ pdf' = Some(Report(name, option, bone_age[1]))
    /\ pc' = "filename"
    /\ UNCHANGED <<uploaded_file, name, option, file_ext, dicom_data, tag_index,
                   image, divisor, shown, bone_age, confidence_low,
                   confidence_high, screen, safe_filename, download>>

\* line 119
Filename ==
    /\ pc = "filename"
    /\ safe_filename' = Some(SafeFilename(name))
    /\ pc' = "offer"
    /\ UNCHANGED <<uploaded_file, name, option, file_ext, dicom_data, tag_index,
                   image, divisor, shown, bone_age, confidence_low,
                   confidence_high, screen, pdf, download>>

\* lines 121-126
Offer ==
    /\ pc = "offer"
    /\ download' = Some([data |-> pdf[1], file_name |-> safe_filename[1], mime |-> Mime])
    /\ pc' = "done"
    /\ UNCHANGED <<uploaded_file, name, option, file_ext, dicom_data, tag_index,
                   image, divisor, shown, bone_age, confidence_low,
                   confidence_high, screen, pdf, safe_filename>>

Next ==
    \/ Begin
    \/ ReadDicom
    \/ Scrub
    \/ Extract
    \/ Normalize
    \/ Display
    \/ OpenRaster
    \/ Estimate
    \/ Confidence
    \/ ShowResult
    \/ Compose
    \/ Filename
    \/ Offer

\* whole runs over every kind of upload, small arrays
Init ==
    InitWith(DicomFiles(DataSets(FewArrays)) \cup RasterFiles(FewArrays) \cup BadFiles,
             FewNames, Genders)

Spec == Init /\ [][Next]_vars

\* whole runs over every pixel array
InitArrays(arrays) ==
    InitWith({Upload("dcm", "dicom", OneDataSet(a), NoRaster) : a \in arrays}
                 \cup RasterFiles({Ramp}) \cup BadFiles \cup DicomFiles({NoDataSet}),
             {TestName}, {"Female"})

InitNormalize == InitArrays(Arrays)

SpecNormalize == InitNormalize /\ [][Next]_vars

\* whole runs over every pixel array of samples of at most 16 bits
InitShort == InitArrays(ShortArrays)

SpecShort == InitShort /\ [][Next]_vars

\* whole runs over every patient name
InitNames ==
    InitWith(DicomFiles({OneDataSet(Flat500), NoDataSet}) \cup RasterFiles({Ramp}) \cup BadFiles,
             Names, {"Unknown"})

SpecNames == InitNames /\ [][Next]_vars

\* the rest of a run after line 88, for every value an estimator can return
InitEstimated ==
    /\ pc = "confidence"
    /\ uploaded_file = Some(Upload("png", "raster", NoDataSet, Ramp))
    /\ name \in FewNames
    /\ option \in Genders
    /\ file_ext = Some("png")
    /\ dicom_data = None
    /\ tag_index = 0
    /\ image = Some(Ramp)
    /\ divisor = NoDivision
    /\ shown = Some(Ramp)
    /\ bone_age \in {Some(a) : a \in Ages}
    /\ confidence_low = None
    /\ confidence_high = None
    /\ screen = None
    /\ pdf = None
    /\ safe_filename = None
    /\ download = None

NextEstimated ==
    \/ Confidence
    \/ ShowResult
    \/ Compose
    \/ Filename
    \/ Offer

SpecEstimated == InitEstimated /\ [][NextEstimated]_vars

-----------------------------------------------------------------------------
(* Properties of normalize_to_uint8, checked in the state right after the  *)
(* call of line 80; Raw is the decoded pixel array the call was given.     *)

Normalized == pc = "display"
Raw == uploaded_file[1].ds["PixelData"][1]
RawMin == SetMin(Range(Raw))
RawMax == SetMax(Range(Raw))
RawSpan == RawMax - RawMin

C2_FlatGivesZeros ==
    (Normalized /\ RawMin = RawMax) =>
        /\ DOMAIN image[1] = DOMAIN Raw
        /\ \A p \in DOMAIN Raw : image[1][p] = 0
        /\ divisor = NoDivision

\* a flat 2 x 2 array of a value above 255 was normalized
C2_Witness ==
    /\ Normalized /\ RawMin = RawMax /\ RawMin > 255
    /\ DOMAIN Raw = (1..2) \X (1..2)

\* C8 as claimed: a non-flat array gives an array of the same shape with
\* samples in 0..255, 0 where the input is minimal and 255 where it is maximal.
C8_FullRange ==
    (Normalized /\ RawMin < RawMax) =>
        /\ DOMAIN image[1] = DOMAIN Raw
        /\ \A p \in DOMAIN Raw :
               /\ image[1][p] \in 0..255
               /\ Raw[p] = RawMin => image[1][p] = 0
               /\ Raw[p] = RawMax => image[1][p] = 255

-----------------------------------------------------------------------------
(* Properties of the metadata scrub; Read is the data set as dcmread       *)
(* returned it.                                                             *)

IdentityTags == {"PatientName", "PatientID", "PatientBirthDate"}
Read == uploaded_file[1].ds
ScrubDone == dicom_data # None /\ pc \notin {"start", "decode", "scrub"}

\* C3: after the scrub loop each identity field that was present is empty,
\* each one that was absent is still absent, every other element (the pixel
\* data too) is as it was read, and the loop itself never ends the run.
C3_ScrubEffect ==
    /\ ScrubDone =>
           \A t \in Tags :
               dicom_data[1][t] =
                   IF t \in IdentityTags /\ Read[t] # Absent THEN Some("") ELSE Read[t]
    /\ (dicom_data # None /\ pc = "error") =>
           (tag_index = 4 /\ Read["PixelData"] = Absent)

\* the loop ran over a data set with a name, a sex and pixel data but no ID
C3_Witness ==
    /\ ScrubDone
    /\ Read["PatientName"] = Some("Jane Doe")
    /\ Read["PatientID"] = Absent
    /\ Read["PatientSex"] # Absent
    /\ Read["PixelData"] # Absent

\* C4: on a DICOM run, once the pixel array is about to be extracted, and at
\* the display and the composition of the report after it, the three
\* identity fields are empty or absent.
C4_ScrubbedFirst ==
    (/\ dicom_data # None
     /\ \/ pc \in {"extract", "display", "compose"}
        \/ image # None \/ shown # None \/ screen # None \/ pdf # None
        \/ safe_filename # None \/ download # None)
    => \A t \in IdentityTags : dicom_data[1][t] \in {Absent, Some("")}

\* the report of a DICOM upload that carried all three fields is composed
C4_Witness ==
    /\ dicom_data # None /\ pdf # None /\ shown # None
    /\ \A t \in IdentityTags : Read[t] \notin {Absent, Some("")}

-----------------------------------------------------------------------------
(* Properties of the confidence band; months are quarters / 4 *)

C6_Band ==
    (confidence_low # None /\ bone_age[1] \in 0..864) =>
        LET a == bone_age[1] IN
        /\ confidence_low[1] = IF a - 6 < 0 THEN 0 ELSE a - 6
        /\ confidence_high[1] = IF a + 6 > 864 THEN 864 ELSE a + 6
        /\ a = 480 => confidence_low[1] = 474 /\ confidence_high[1] = 486
        /\ a = 4 => confidence_low[1] = 0 /\ confidence_high[1] = 10
        /\ a = 864 => confidence_high[1] = 864

\* the band of an estimate of one month, clamped at 0
C6_Witness == confidence_low # None /\ bone_age = Some(4) /\ confidence_low = Some(0)

-----------------------------------------------------------------------------
(* Properties of the report and of the file name *)

NoSpace(s) == [i \in 1..Len(s) |-> IF s[i] = " " THEN "_" ELSE s[i]]

\* C7: the file name is the name without its leading and trailing
\* whitespace, each space left replaced by an underscore and every other
\* character kept, followed by "_report.pdf".
C7_Filename ==
    safe_filename # None =>
        /\ \E i \in 1..(Len(name) + 1) : \E j \in (i - 1)..Len(name) :
               /\ \A k \in 1..(i - 1) : name[k] \in Whitespace
               /\ \A k \in (j + 1)..Len(name) : name[k] \in Whitespace
               /\ i <= j => (name[i] \notin Whitespace /\ name[j] \notin Whitespace)
               /\ safe_filename[1] = NoSpace(SubSeq(name, i, j)) \o <<"_", "r", "e", "p", "o", "r", "t", ".", "p", "d", "f">>
        /\ name = JaneDoe => safe_filename[1] = <<"J", "a", "n", "e", "_", "D", "o", "e", "_", "r", "e", "p", "o", "r", "t", ".", "p", "d", "f">>
        /\ name = PaddedBob => safe_filename[1] = <<"B", "o", "b", "_", "r", "e", "p", "o", "r", "t", ".", "p", "d", "f">>

\* the file name of a name with whitespace at both ends and inside
C7_Witness ==
    /\ safe_filename # None
    /\ Len(name) >= 3
    /\ name[1] \in Whitespace /\ name[Len(name)] \in Whitespace
    /\ \E k \in 2..(Len(name) - 1) : name[k] \notin Whitespace

\* C9: the report is one page whose lines are, in this order, the title, a
\* blank line, the name as the user entered it, the selected gender and the
\* age with one decimal, the same figure as in the result block.
C9_Report ==
    pdf # None =>
        /\ pdf[1].pages = 1
        /\ Len(pdf[1].lines) = 5
        /\ pdf[1].lines[1] = Cell(<<"B", "o", "n", "e", "-", "A", "g", "e", "r", " ", "R", "e", "p", "o", "r", "t">>)
        /\ pdf[1].lines[2] = Ln
        /\ pdf[1].lines[3] = Cell(<<"P", "a", "t", "i", "e", "n", "t", " ", "N", "a", "m", "e", ":", " ">> \o name)
        /\ pdf[1].lines[4] = Cell(<<"G", "e", "n", "d", "e", "r", ":", " ">> \o GenderText(option))
        /\ pdf[1].lines[5] = Cell(<<"E", "s", "t", "i", "m", "a", "t", "e", "d", " ", "B", "o", "n", "e", " ", "A", "g", "e", ":", " ">> \o screen[1].age \o <<" ", "y", "e", "a", "r", "s">>)
        /\ bone_age = Some(480) =>
               pdf[1].lines[5] = Cell(<<"E", "s", "t", "i", "m", "a", "t", "e", "d", " ", "B", "o", "n", "e", " ", "A", "g", "e", ":", " ", "1", "2", "0", ".", "0", " ", "y", "e", "a", "r", "s">>)

\* the report of a male patient called Test with an estimate of 120.25
C9_Witness ==
    /\ pdf # None /\ name = TestName /\ option = "Male" /\ bone_age = Some(481)
    /\ screen[1].age = <<"1", "2", "0", ".", "2">>

-----------------------------------------------------------------------------
(* Properties of the run *)

Rank(p) ==
    CASE p = "start" -> 0
      [] p = "decode" -> 1
      [] p = "scrub" -> 2
      [] p = "extract" -> 3
      [] p = "normalize" -> 4
      [] p = "display" -> 5
      [] p = "estimate" -> 6
      [] p = "confidence" -> 7
      [] p = "result" -> 8
      [] p = "compose" -> 9
      [] p = "filename" -> 10
      [] p = "offer" -> 11
      [] OTHER -> 12

\* what a state of the run has produced follows the order of the steps
Ordered ==
    /\ download # None => pdf # None
    /\ pdf # None => bone_age # None
    /\ bone_age # None => image # None
    /\ image # None => (file_ext # None /\ uploaded_file # None)
    /\ (dicom_data # None \/ divisor # NoDivision) => file_ext = Some("dcm")
    /\ (image # None /\ file_ext = Some("dcm")) =>
           (dicom_data # None /\ Read["PixelData"] # Absent)
    /\ pc = "error" => (bone_age = None /\ pdf = None /\ download = None)

\* C10: a run only moves forward through decode, scrub, normalize, estimate,
\* compose and offer, each step at most once; the download needs the report,
\* the report the estimate, the estimate a decoded image, and a run whose
\* decode failed has stopped without a report.
C10_LinearRun ==
    /\ []Ordered
    /\ [][\/ Rank(pc') > Rank(pc)
          \/ pc = "scrub" /\ pc' = "scrub" /\ tag_index' = tag_index + 1]_vars

\* a DICOM upload without pixel data stopped the run after the scrub
C10_Witness == pc = "error" /\ dicom_data # None /\ tag_index = 4

====
